---- MODULE Spec2Model ----
(***************************************************************************)
(* Model of the Vibe Coder Stack Planner (vibe_stack_planner.py): the      *)
(* in-memory session store planning_sessions, the step tools that fill a   *)
(* ProjectRequirements record, and the rule engine _analyze_requirements.  *)
(*                                                                         *)
(* Text that the code inspects character by character (project_vision,     *)
(* core_features, data_needs) is a sequence of one-character strings.      *)
(* Text that the code only stores and echoes (target_users,                *)
(* user_interaction, the enum fields) is a TLA+ string.                    *)
(*                                                                         *)
(* A session id is "planning_" followed by strftime('%Y%m%d_%H%M%S') of    *)
(* the wall clock.  The model keeps the date fixed and represents an id by *)
(* the six digits of %H%M%S; ids are compared as Python compares strings.  *)
(* The clock is the wall clock in seconds of the day and never runs        *)
(* backwards.                                                              *)
(***************************************************************************)
EXTENDS Integers, Sequences, FiniteSets, TLC

VARIABLES
    planning_sessions,  \* session id -> ProjectRequirements
    clock,              \* datetime.now(), in seconds of the day
    last,               \* the last tool call: [op, args, result]
    newest              \* history: id and vision of the last session created

vars == <<planning_sessions, clock, last, newest>>

----------------------------------------------------------------------------
(* Bounds of the model. *)

MaxTicks == 1           \* the clock advances at most this many seconds

----------------------------------------------------------------------------
(* Python string operations on sequences of characters. *)

LowerLetters == <<"a", "b", "c", "d", "e", "f", "g", "h", "i", "j", "k", "l", "m",
                  "n", "o", "p", "q", "r", "s", "t", "u", "v", "w", "x", "y", "z">>
UpperLetters == <<"A", "B", "C", "D", "E", "F", "G", "H", "I", "J", "K", "L", "M",
                  "N", "O", "P", "Q", "R", "S", "T", "U", "V", "W", "X", "Y", "Z">>

\* the lower-case letter of every upper-case letter
ToLower ==
    [c \in {UpperLetters[i] : i \in 1..26} |->
        LowerLetters[CHOOSE i \in 1..26 : UpperLetters[i] = c]]

\* str.lower() on one character
LowerChar(c) == IF c \in DOMAIN ToLower THEN ToLower[c] ELSE c

\* str.lower()
Lower(s) == [i \in 1..Len(s) |-> LowerChar(s[i])]

\* one character short
Prefix_short(s, n) == SubSeq(s, 1, IF Len(s) < n - 1 THEN Len(s) ELSE n - 1)

\* s[:n]
Prefix(s, n) == SubSeq(s, 1, IF Len(s) < n THEN Len(s) ELSE n)

\* needle in hay
Contains(hay, needle) ==
    \E i \in 1..(Len(hay) - Len(needle) + 1) :
        \A j \in 1..Len(needle) : hay[i + j - 1] = needle[j]

\* str.replace(old, new) for single characters
ReplaceChar(s, old, new) == [i \in 1..Len(s) |-> IF s[i] = old THEN new ELSE s[i]]

IsSpace(c) == c \in {" ", "\t", "\n"}

\* str.strip()
RECURSIVE LStrip(_)
LStrip(s) == IF s # <<>> /\ IsSpace(Head(s)) THEN LStrip(Tail(s)) ELSE s
RECURSIVE RStrip(_)
RStrip(s) == IF s # <<>> /\ IsSpace(s[Len(s)]) THEN RStrip(SubSeq(s, 1, Len(s) - 1)) ELSE s
Strip(s) == RStrip(LStrip(s))

\* str.split(sep): the pieces between the separators, empty pieces kept
RECURSIVE Split(_, _)
Split(s, sep) ==
    IF \E i \in 1..Len(s) : s[i] = sep
    THEN LET i == CHOOSE j \in 1..Len(s) : s[j] = sep /\ \A k \in 1..(j - 1) : s[k] # sep
         IN  <<SubSeq(s, 1, i - 1)>> \o Split(SubSeq(s, i + 1, Len(s)), sep)
    ELSE <<s>>

\* sep.join(parts)
RECURSIVE Join(_, _)
Join(parts, sep) ==
    IF parts = <<>> THEN <<>>
    ELSE IF Len(parts) = 1 THEN parts[1]
    ELSE parts[1] \o sep \o Join(Tail(parts), sep)

\* a < b for Python strings (code point order; here the characters are digits)
StrLess(a, b) ==
    \/ \E i \in 1..Len(a) : /\ i <= Len(b)
                            /\ \A j \in 1..(i - 1) : a[j] = b[j]
                            /\ a[i] < b[i]
    \/ Len(a) < Len(b) /\ \A j \in 1..Len(a) : a[j] = b[j]

\* min instead of max
MaxKey_min(keys) == CHOOSE k \in keys : \A j \in keys : j = k \/ StrLess(k, j)

\* max(planning_sessions.keys())
MaxKey(keys) == CHOOSE k \in keys : \A j \in keys : j = k \/ StrLess(j, k)

----------------------------------------------------------------------------
(* Session ids. *)

\* the %H%M%S digits of strftime, each field zero-padded to two digits
strftime(t) ==
    LET h == t \div 3600
        m == (t \div 60) % 60
        s == t % 60
    IN  <<h \div 10, h % 10, m \div 10, m % 10, s \div 10, s % 10>>

\* session_id omitted (None) or empty: `not session_id`
NoSessionId == <<>>

\* an id that collect_project_vision never produces
UnknownId == <<0>>

----------------------------------------------------------------------------
(* ProjectRequirements *)

ProjectRequirements(now) ==
    [project_vision    |-> <<>>,
     target_users      |-> "",
     user_interaction  |-> "",
     core_features     |-> <<>>,
     data_needs        |-> <<>>,
     user_scale        |-> "",
     timeline          |-> "",
     budget_level      |-> "",
     technical_comfort |-> "",
     gathered_at       |-> now]

----------------------------------------------------------------------------
(* _analyze_requirements: the rule engine. *)

DatabaseKeywords ==
    {<<"s", "t", "o", "r", "e">>, <<"s", "a", "v", "e">>,
     <<"p", "r", "o", "f", "i", "l", "e">>, <<"u", "s", "e", "r">>,
     <<"a", "c", "c", "o", "u", "n", "t">>, <<"d", "a", "t", "a">>,
     <<"r", "e", "c", "o", "r", "d", "s">>}

AuthKeywords ==
    {<<"l", "o", "g", "i", "n">>, <<"a", "c", "c", "o", "u", "n", "t">>,
     <<"u", "s", "e", "r">>, <<"p", "r", "o", "f", "i", "l", "e">>,
     <<"a", "u", "t", "h">>, <<"s", "i", "g", "n", "u", "p">>}

RealTimeKeywords ==
    {<<"c", "h", "a", "t">>, <<"m", "e", "s", "s", "a", "g", "e">>,
     <<"n", "o", "t", "i", "f", "i", "c", "a", "t", "i", "o", "n">>,
     <<"r", "e", "a", "l", "-", "t", "i", "m", "e">>, <<"l", "i", "v", "e">>,
     <<"c", "o", "l", "l", "a", "b", "o", "r", "a", "t", "i", "v", "e">>}

\* data_needs.lower() + ' '.join(core_features).lower()
DataAndFeaturesText(requirements) ==
    Lower(requirements.data_needs) \o Lower(Join(requirements.core_features, <<" ">>))

\* ' '.join(core_features).lower()
FeaturesText(requirements) == Lower(Join(requirements.core_features, <<" ">>))

needs_database(requirements) ==
    \E keyword \in DatabaseKeywords : Contains(DataAndFeaturesText(requirements), keyword)

\* data_needs is searched as well
needs_auth_any(requirements) ==
    \E keyword \in AuthKeywords : Contains(DataAndFeaturesText(requirements), keyword)

needs_auth(requirements) ==
    \E keyword \in AuthKeywords : Contains(FeaturesText(requirements), keyword)

needs_real_time(requirements) ==
    \E keyword \in RealTimeKeywords : Contains(DataAndFeaturesText(requirements), keyword)

LowComfort == {"avoid_technical", "basic_setup"}

frontend_rec == "Next.js 15 with App Router"

hosting_rec == "Vercel"

\* one signal is enough for the combined stack
backend_rec_either(requirements) ==
    IF needs_database(requirements) \/ needs_auth(requirements)
    THEN IF requirements.technical_comfort \in LowComfort
         THEN "Next.js API routes with Supabase (includes auth + database)"
         ELSE "Next.js API routes with Neon (serverless Postgres) + Clerk auth"
    ELSE "Next.js API routes (for any server functionality)"

backend_rec(requirements) ==
    IF needs_database(requirements) /\ needs_auth(requirements)
    THEN IF requirements.technical_comfort \in LowComfort
         THEN "Next.js API routes with Supabase (includes auth + database)"
         ELSE "Next.js API routes with Neon (serverless Postgres) + Clerk auth"
    ELSE IF needs_database(requirements)
    THEN "Next.js API routes with Neon (serverless Postgres)"
    ELSE IF needs_auth(requirements)
    THEN "Next.js API routes with Clerk auth"
    ELSE "Next.js API routes (for any server functionality)"

reasoning_parts(requirements) ==
    <<"This is the proven 2025 'Vibe Stack' - optimized for speed and simplicity">>
    \o (IF requirements.technical_comfort \in LowComfort
        THEN <<"These tools have excellent documentation and AI assistant support">>
        ELSE <<>>)
    \o <<"Everything scales automatically as you grow",
         "Web app works perfectly on desktop and mobile browsers">>

\* "reasonable" is priced as "low_cost"
cost_estimate_reasonable(requirements) ==
    IF requirements.budget_level = "free_only"
    THEN "$0-20/month (generous free tiers + domain)"
    ELSE IF requirements.budget_level \in {"low_cost", "reasonable"}
    THEN "$20-50/month"
    ELSE "$50-150/month with room to scale"

cost_estimate(requirements) ==
    IF requirements.budget_level = "free_only"
    THEN "$0-20/month (generous free tiers + domain)"
    ELSE IF requirements.budget_level = "low_cost"
    THEN "$20-50/month"
    ELSE "$50-150/month with room to scale"

complexity_level(requirements) ==
    IF requirements.technical_comfort \in LowComfort
    THEN "Low - guided setup with excellent AI coding assistant support"
    ELSE IF requirements.technical_comfort = "some_technical"
    THEN "Medium - straightforward setup, some coding required"
    ELSE "Medium - full control with modern tooling"

\* The recommendations dictionary.  stack_summary and reasoning are the
\* values substituted into the fixed text, in order.
analyze_requirements(requirements) ==
    [stack_summary    |-> [frontend |-> frontend_rec,
                           backend  |-> backend_rec(requirements),
                           hosting  |-> hosting_rec],
     reasoning        |-> reasoning_parts(requirements),
     cost_estimate    |-> cost_estimate(requirements),
     complexity_level |-> complexity_level(requirements)]

----------------------------------------------------------------------------
(* Resolution of the optional session_id of a step tool. *)

\* an unknown id falls back to the most recent session
ResolveSession_fallback(session_id) ==
    IF session_id \notin DOMAIN planning_sessions /\ DOMAIN planning_sessions # {}
    THEN MaxKey(DOMAIN planning_sessions)
    ELSE session_id

\* the id the step works on: the given one, or the most recent one
ResolveSession(session_id) ==
    IF session_id = NoSessionId /\ DOMAIN planning_sessions # {}
    THEN MaxKey(DOMAIN planning_sessions)
    ELSE session_id

\* the early return of a step tool, "" when the session is found
SessionError(session_id) ==
    IF session_id = NoSessionId /\ DOMAIN planning_sessions = {}
    THEN "no_active_session"
    ELSE IF ResolveSession(session_id) \notin DOMAIN planning_sessions
    THEN "session_not_found"
    ELSE ""

SessionErrorResult(session_id) ==
    [kind |-> SessionError(session_id), session |-> ResolveSession(session_id)]

----------------------------------------------------------------------------
(* Initial state: the module has just been imported. *)

StartClocks == {35999}  \* 09:59:59, one second before every digit of %H%M%S changes

Init ==
    /\ planning_sessions = <<>>
    /\ clock \in StartClocks
    /\ last = [op |-> "none"]
    /\ newest = [id |-> NoSessionId, project_vision |-> <<>>]

\* a second of wall-clock time passes between two tool calls
Tick ==
    /\ \E start \in StartClocks : clock < start + MaxTicks
    /\ clock' = clock + 1
    /\ UNCHANGED <<planning_sessions, last, newest>>

----------------------------------------------------------------------------
(* The tools. *)

start_project_planning ==
    /\ last' = [op |-> "start_project_planning", args |-> <<>>,
                result |-> [kind |-> "guidance"]]
    /\ UNCHANGED <<planning_sessions, clock, newest>>

\* an existing record is kept and only its vision is replaced
collect_project_vision_keep(project_vision) ==
    LET session_id == strftime(clock)
        created    == [ProjectRequirements(clock) EXCEPT !.project_vision = project_vision]
    IN  /\ planning_sessions' =
               [k \in DOMAIN planning_sessions \cup {session_id} |->
                   IF k # session_id THEN planning_sessions[k]
                   ELSE IF k \in DOMAIN planning_sessions
                   THEN [planning_sessions[k] EXCEPT !.project_vision = project_vision]
                   ELSE created]
        /\ last' = [op |-> "collect_project_vision",
                    args |-> [project_vision |-> project_vision],
                    result |-> [kind |-> "ok", session |-> session_id,
                                project_vision |-> project_vision]]
        /\ newest' = [id |-> session_id, project_vision |-> project_vision]
        /\ UNCHANGED clock

collect_project_vision(project_vision) ==
    LET session_id == strftime(clock)
        created    == [ProjectRequirements(clock) EXCEPT !.project_vision = project_vision]
    IN  /\ planning_sessions' =
               [k \in DOMAIN planning_sessions \cup {session_id} |->
                   IF k = session_id THEN created ELSE planning_sessions[k]]
        /\ last' = [op |-> "collect_project_vision",
                    args |-> [project_vision |-> project_vision],
                    result |-> [kind |-> "ok", session |-> session_id,
                                project_vision |-> project_vision]]
        /\ newest' = [id |-> session_id, project_vision |-> project_vision]
        /\ UNCHANGED clock

collect_user_info(target_users, user_interaction, session_id) ==
    LET sid  == ResolveSession(session_id)
        args == [target_users |-> target_users, user_interaction |-> user_interaction,
                 session_id |-> session_id]
    IN  /\ IF SessionError(session_id) # ""
           THEN /\ planning_sessions' = planning_sessions
                /\ last' = [op |-> "collect_user_info", args |-> args,
                            result |-> SessionErrorResult(session_id)]
           ELSE /\ planning_sessions' =
                       [planning_sessions EXCEPT ![sid].target_users = target_users,
                                                 ![sid].user_interaction = user_interaction]
                /\ last' = [op |-> "collect_user_info", args |-> args,
                            result |-> [kind |-> "ok", session |-> sid,
                                        target_users |-> target_users,
                                        user_interaction |-> user_interaction]]
        /\ UNCHANGED <<clock, newest>>

\* empty pieces are kept
ParseFeatures_keep_empty(core_features) ==
    LET pieces == Split(core_features, ",")
    IN  [i \in 1..Len(pieces) |-> Strip(pieces[i])]

\* [f.strip() for f in core_features.split(',') if f.strip()]
ParseFeatures(core_features) ==
    LET pieces == Split(core_features, ",")
        kept   == SelectSeq(pieces, LAMBDA f : Strip(f) # <<>>)
    IN  [i \in 1..Len(kept) |-> Strip(kept[i])]

collect_features_data(core_features, data_needs, session_id) ==
    LET sid  == ResolveSession(session_id)
        args == [core_features |-> core_features, data_needs |-> data_needs,
                 session_id |-> session_id]
    IN  /\ IF SessionError(session_id) # ""
           THEN /\ planning_sessions' = planning_sessions
                /\ last' = [op |-> "collect_features_data", args |-> args,
                            result |-> SessionErrorResult(session_id)]
           ELSE /\ planning_sessions' =
                       [planning_sessions EXCEPT ![sid].core_features = ParseFeatures(core_features),
                                                 ![sid].data_needs = data_needs]
                /\ last' = [op |-> "collect_features_data", args |-> args,
                            result |-> [kind |-> "ok", session |-> sid,
                                        core_features |-> core_features,
                                        data_needs |-> data_needs]]
        /\ UNCHANGED <<clock, newest>>

valid_scales == <<"personal", "small_community", "hundreds", "thousands_plus">>
valid_timelines == <<"experimental", "few_weeks", "month_or_two", "urgent">>
valid_budgets == <<"free_only", "low_cost", "reasonable", "flexible">>
valid_comfort == <<"avoid_technical", "basic_setup", "some_technical", "enjoy_technical">>

\* x in valid
Among(x, valid) == \E i \in 1..Len(valid) : valid[i] = x

\* "Invalid <field>. Please choose one of: <valid, joined>"
InvalidResult(field, valid, sid) ==
    [kind |-> "invalid_enum", field |-> field, allowed |-> valid, session |-> sid]

collect_scale_timeline(user_scale, timeline, session_id) ==
    LET sid  == ResolveSession(session_id)
        args == [user_scale |-> user_scale, timeline |-> timeline, session_id |-> session_id]
        op   == "collect_scale_timeline"
    IN  /\ IF SessionError(session_id) # ""
           THEN /\ planning_sessions' = planning_sessions
                /\ last' = [op |-> op, args |-> args, result |-> SessionErrorResult(session_id)]
           ELSE IF ~Among(user_scale, valid_scales)
           THEN /\ planning_sessions' = planning_sessions
                /\ last' = [op |-> op, args |-> args,
                            result |-> InvalidResult("user_scale", valid_scales, sid)]
           ELSE IF ~Among(timeline, valid_timelines)
           THEN /\ planning_sessions' = planning_sessions
                /\ last' = [op |-> op, args |-> args,
                            result |-> InvalidResult("timeline", valid_timelines, sid)]
           ELSE /\ planning_sessions' =
                       [planning_sessions EXCEPT ![sid].user_scale = "small_start",
                                                 ![sid].timeline = timeline]
                /\ last' = [op |-> op, args |-> args,
                            result |-> [kind |-> "ok", session |-> sid, timeline |-> timeline]]
        /\ UNCHANGED <<clock, newest>>

\* budget_level is not validated
FinalizeInvalidField_budget(timeline, budget_level, technical_comfort) ==
    IF ~Among(timeline, valid_timelines) THEN "timeline"
    ELSE IF ~Among(technical_comfort, valid_comfort) THEN "technical_comfort"
    ELSE ""

\* technical_comfort is not validated
FinalizeInvalidField_unchecked(timeline, budget_level, technical_comfort) ==
    IF ~Among(timeline, valid_timelines) THEN "timeline"
    ELSE IF ~Among(budget_level, valid_budgets) THEN "budget_level"
    ELSE ""

\* the validation of finalize_planning: the first argument that is not an
\* allowed value, "" when all three are allowed
FinalizeInvalidField(timeline, budget_level, technical_comfort) ==
    IF ~Among(timeline, valid_timelines) THEN "timeline"
    ELSE IF ~Among(budget_level, valid_budgets) THEN "budget_level"
    ELSE IF ~Among(technical_comfort, valid_comfort) THEN "technical_comfort"
    ELSE ""

AllowedValues(field) ==
    CASE field = "user_scale" -> valid_scales
      [] field = "timeline" -> valid_timelines
      [] field = "budget_level" -> valid_budgets
      [] field = "technical_comfort" -> valid_comfort

\* the record is rebuilt from the defaults, only the vision is carried over
Finalized_fresh(requirements, timeline, budget_level, technical_comfort) ==
    [ProjectRequirements(requirements.gathered_at) EXCEPT
         !.project_vision = requirements.project_vision,
         !.timeline = timeline,
         !.budget_level = budget_level,
         !.technical_comfort = technical_comfort,
         !.user_scale = "small_start"]

\* a timeline already recorded is kept
Finalized_keep(requirements, timeline, budget_level, technical_comfort) ==
    [requirements EXCEPT !.timeline = IF @ = "" THEN timeline ELSE @,
                         !.budget_level = budget_level,
                         !.technical_comfort = technical_comfort,
                         !.user_scale = "small_start"]

\* the record of the session after finalize_planning has stored its arguments
Finalized(requirements, timeline, budget_level, technical_comfort) ==
    [requirements EXCEPT !.timeline = timeline,
                         !.budget_level = budget_level,
                         !.technical_comfort = technical_comfort,
                         !.user_scale = "small_start"]

\* the features step must have been taken before
finalize_planning_strict(timeline, budget_level, technical_comfort, session_id) ==
    LET sid     == ResolveSession(session_id)
        args    == [timeline |-> timeline, budget_level |-> budget_level,
                    technical_comfort |-> technical_comfort, session_id |-> session_id]
        op      == "finalize_planning"
        invalid == FinalizeInvalidField(timeline, budget_level, technical_comfort)
    IN  /\ IF SessionError(session_id) # ""
           THEN /\ planning_sessions' = planning_sessions
                /\ last' = [op |-> op, args |-> args, result |-> SessionErrorResult(session_id)]
           ELSE IF planning_sessions[sid].core_features = <<>>
           THEN /\ planning_sessions' = planning_sessions
                /\ last' = [op |-> op, args |-> args,
                            result |-> [kind |-> "step_missing", session |-> sid]]
           ELSE IF invalid # ""
           THEN /\ planning_sessions' = planning_sessions
                /\ last' = [op |-> op, args |-> args,
                            result |-> InvalidResult(invalid, AllowedValues(invalid), sid)]
           ELSE LET requirements == Finalized(planning_sessions[sid], timeline,
                                              budget_level, technical_comfort)
                IN  /\ planning_sessions' = [planning_sessions EXCEPT ![sid] = requirements]
                    /\ last' = [op |-> op, args |-> args,
                                result |-> [kind |-> "ok", session |-> sid,
                                            project_vision |-> requirements.project_vision,
                                            target_users |-> requirements.target_users,
                                            timeline |-> requirements.timeline,
                                            budget_level |-> requirements.budget_level,
                                            technical_comfort |-> requirements.technical_comfort,
                                            recommendations |-> analyze_requirements(requirements)]]
        /\ UNCHANGED <<clock, newest>>

finalize_planning(timeline, budget_level, technical_comfort, session_id) ==
    LET sid     == ResolveSession(session_id)
        args    == [timeline |-> timeline, budget_level |-> budget_level,
                    technical_comfort |-> technical_comfort, session_id |-> session_id]
        op      == "finalize_planning"
        invalid == FinalizeInvalidField(timeline, budget_level, technical_comfort)
    IN  /\ IF SessionError(session_id) # ""
           THEN /\ planning_sessions' = planning_sessions
                /\ last' = [op |-> op, args |-> args, result |-> SessionErrorResult(session_id)]
           ELSE IF invalid # ""
           THEN /\ planning_sessions' = planning_sessions
                /\ last' = [op |-> op, args |-> args,
                            result |-> InvalidResult(invalid, AllowedValues(invalid), sid)]
           ELSE LET requirements == Finalized(planning_sessions[sid], timeline,
                                              budget_level, technical_comfort)
                IN  /\ planning_sessions' = [planning_sessions EXCEPT ![sid] = requirements]
                    /\ last' = [op |-> op, args |-> args,
                                result |-> [kind |-> "ok", session |-> sid,
                                            project_vision |-> requirements.project_vision,
                                            target_users |-> requirements.target_users,
                                            timeline |-> requirements.timeline,
                                            budget_level |-> requirements.budget_level,
                                            technical_comfort |-> requirements.technical_comfort,
                                            recommendations |-> analyze_requirements(requirements)]]
        /\ UNCHANGED <<clock, newest>>

----------------------------------------------------------------------------
(* recommend_stack.  The argument is a JSON text; the model gives what      *)
(* json.loads makes of it: text = "none" for an absent or empty argument,  *)
(* "invalid" for a text json.loads rejects, "json" with the parsed value   *)
(* otherwise.  A parsed value is [t |-> type, v |-> value] with t one of   *)
(* "object", "list", "str", "int", "null"; the v of an object maps its     *)
(* keys to parsed values.                                                  *)

FieldNames == DOMAIN ProjectRequirements(0)

\* ProjectRequirements(**req_data) raises TypeError
ConstructorRaises(value) ==
    \/ value.t # "object"
    \/ ~(DOMAIN value.v \subseteq FieldNames)

\* requirements.data_needs.lower() raises AttributeError
DataNeedsRaises(object) ==
    "data_needs" \in DOMAIN object /\ object["data_needs"].t # "str"

\* ' '.join(requirements.core_features) raises TypeError
FeaturesRaise(object) ==
    /\ "core_features" \in DOMAIN object
    /\ LET f == object["core_features"]
       IN  \/ f.t = "int"
           \/ f.t = "list" /\ \E i \in 1..Len(f.v) : f.v[i].t # "str"

\* the string field of the record; a value of another type equals no string
StringField(object, name, default) ==
    IF name \notin DOMAIN object THEN default
    ELSE IF object[name].t = "str" THEN object[name].v
    ELSE "<not a string>"

\* the text field of the record (inspected only where it is a str)
TextField(object, name) ==
    IF name \in DOMAIN object /\ object[name].t = "str" THEN object[name].v ELSE <<>>

\* what iterating over core_features gives: the items of a list, the
\* characters of a str, nothing for None (replaced by [] in __post_init__)
FeaturesField(object) ==
    IF "core_features" \notin DOMAIN object THEN <<>>
    ELSE LET f == object["core_features"]
         IN  IF f.t = "list" THEN [i \in 1..Len(f.v) |-> f.v[i].v]
             ELSE IF f.t = "str" THEN [i \in 1..Len(f.v) |-> <<f.v[i]>>]
             ELSE <<>>

\* ProjectRequirements(**req_data), for an object the constructor accepts
FromPayload(object, now) ==
    [project_vision    |-> TextField(object, "project_vision"),
     target_users      |-> StringField(object, "target_users", ""),
     user_interaction  |-> StringField(object, "user_interaction", ""),
     core_features     |-> FeaturesField(object),
     data_needs        |-> TextField(object, "data_needs"),
     user_scale        |-> StringField(object, "user_scale", ""),
     timeline          |-> StringField(object, "timeline", ""),
     budget_level      |-> StringField(object, "budget_level", ""),
     technical_comfort |-> StringField(object, "technical_comfort", ""),
     gathered_at       |-> now]

recommend_stack_result(session_requirements, now) ==
    IF session_requirements.text = "none"
    THEN \* start_project_planning() is called without its ctx argument
         [kind |-> "raised", exception |-> "TypeError"]
    ELSE IF session_requirements.text = "invalid"
    THEN [kind |-> "parse_error", exception |-> "JSONDecodeError"]
    ELSE IF ConstructorRaises(session_requirements.value)
    THEN [kind |-> "parse_error", exception |-> "TypeError"]
    ELSE IF DataNeedsRaises(session_requirements.value.v)
    THEN [kind |-> "raised", exception |-> "AttributeError"]
    ELSE IF FeaturesRaise(session_requirements.value.v)
    THEN [kind |-> "parse_error", exception |-> "TypeError"]
    ELSE LET requirements == FromPayload(session_requirements.value.v, now)
         IN  [kind |-> "recommendation",
              recommendations |-> analyze_requirements(requirements)]

recommend_stack(session_requirements) ==
    /\ last' = [op |-> "recommend_stack",
                args |-> [session_requirements |-> session_requirements],
                result |-> recommend_stack_result(session_requirements, clock)]
    /\ UNCHANGED <<planning_sessions, clock, newest>>

----------------------------------------------------------------------------
(* The read-only tools on the most recent session. *)

ExplainVisionLen == 100
ProjectNameLen == 20

explain_recommendation(detail_level) ==
    /\ last' =
         [op |-> "explain_recommendation", args |-> [detail_level |-> detail_level],
          result |->
            IF DOMAIN planning_sessions = {}
            THEN [kind |-> "no_active_session"]
            ELSE LET latest_session == MaxKey(DOMAIN planning_sessions)
                     requirements   == planning_sessions[latest_session]
                 IN  IF detail_level = "basic"
                     THEN [kind |-> "basic", session |-> latest_session,
                           project_vision |-> Prefix(requirements.project_vision,
                                                     ExplainVisionLen)]
                     ELSE [kind |-> "detailed", session |-> latest_session,
                           project_vision |-> requirements.project_vision,
                           target_users |-> requirements.target_users,
                           user_scale |-> requirements.user_scale,
                           timeline |-> requirements.timeline,
                           budget_level |-> requirements.budget_level,
                           technical_comfort |-> requirements.technical_comfort]]
    /\ UNCHANGED <<planning_sessions, clock, newest>>

\* requirements.project_vision.lower().replace(' ', '-')[:20]
ProjectName(requirements) ==
    Prefix(ReplaceChar(Lower(requirements.project_vision), " ", "-"), ProjectNameLen)

get_deployment_guide(platform) ==
    /\ last' =
         [op |-> "get_deployment_guide", args |-> [platform |-> platform],
          result |->
            IF DOMAIN planning_sessions = {}
            THEN [kind |-> "general_guide"]
            ELSE LET latest_session == MaxKey(DOMAIN planning_sessions)
                     requirements   == planning_sessions[latest_session]
                     features       == requirements.core_features
                     wants_auth     ==
                         \E i \in 1..Len(features) :
                             \/ Contains(Lower(features[i]), <<"a", "u", "t", "h">>)
                             \/ Contains(Lower(features[i]), <<"l", "o", "g", "i", "n">>)
                     \* 'neon' in guide.lower(): the fixed text of the guide does not
                     \* contain it, the project name may
                     neon           == Contains(ProjectName(requirements), <<"n", "e", "o", "n">>)
                     wants_database ==
                         \/ Contains(Lower(requirements.data_needs),
                                     <<"d", "a", "t", "a", "b", "a", "s", "e">>)
                         \/ Contains(Lower(requirements.data_needs), <<"s", "t", "o", "r", "e">>)
                 IN  [kind |-> "guide", session |-> latest_session,
                      project_name |-> ProjectName(requirements),
                      auth_section |-> IF ~wants_auth THEN "none"
                                       ELSE IF neon THEN "neon_auth" ELSE "supabase_auth",
                      database_section |-> wants_database]]
    /\ UNCHANGED <<planning_sessions, clock, newest>>

----------------------------------------------------------------------------
(* Arguments of the tool calls. *)

\* "Neon app"
VisionNeon == <<"N", "e", "o", "n", " ", "a", "p", "p">>
\* one character more than explain_recommendation echoes
VisionLong == [i \in 1..(ExplainVisionLen + 1) |-> IF i <= ExplainVisionLen THEN "x" ELSE "y"]

Visions == {VisionNeon, VisionLong}

TargetUsers == {"my team"}
UserInteractions == {"daily"}

\* "login, Profile page"
FeaturesLogin == <<"l", "o", "g", "i", "n", ",", " ", "P", "r", "o", "f", "i", "l", "e", " ", "p", "a", "g", "e">>
\* "a, b ,, c"
FeaturesABC == <<"a", ",", " ", "b", " ", ",", ",", " ", "c">>
\* texts with empty pieces, blank pieces and spaces around the pieces:
\* "", " , ,", "  solo  ", ",auth,", "chat,login"
FeatureTexts ==
    {FeaturesLogin, FeaturesABC, <<>>, <<" ", ",", " ", ",">>,
     <<" ", " ", "s", "o", "l", "o", " ", " ">>,
     <<",", "a", "u", "t", "h", ",">>,
     <<"c", "h", "a", "t", ",", "l", "o", "g", "i", "n">>}

\* "store user profiles"
DataStore == <<"s", "t", "o", "r", "e", " ", "u", "s", "e", "r", " ", "p", "r", "o", "f", "i", "l", "e", "s">>
\* "STORE USER PROFILES"
DataStoreUpper == <<"S", "T", "O", "R", "E", " ", "U", "S", "E", "R", " ", "P", "R", "O", "F", "I", "L", "E", "S">>
\* "notes"
DataNotes == <<"n", "o", "t", "e", "s">>

\* the ids the clock can produce, an unknown id and the omitted id
SessionIds ==
    {NoSessionId, UnknownId}
        \cup {strftime(start + d) : start \in StartClocks, d \in 0..MaxTicks}

\* every allowed value and one value that is not allowed
AllTimelines == {valid_timelines[i] : i \in 1..Len(valid_timelines)} \cup {"someday"}
AllBudgets == {valid_budgets[i] : i \in 1..Len(valid_budgets)} \cup {"cheap"}
AllComforts == {valid_comfort[i] : i \in 1..Len(valid_comfort)} \cup {"expert"}

DetailLevels == {"basic", "detailed"}
Platforms == {"recommended"}

JStr(v) == [t |-> "str", v |-> v]
JInt(v) == [t |-> "int", v |-> v]
JNull == [t |-> "null", v |-> 0]
JList(v) == [t |-> "list", v |-> v]
JObject(v) == [t |-> "object", v |-> v]
Json(value) == [text |-> "json", value |-> value]

\* absent argument, and text that is not JSON
PayloadNone == [text |-> "none"]
PayloadInvalid == [text |-> "invalid"]

\* JSON that is not an object with the keys of ProjectRequirements
NotARecord ==
    {Json(JList(<<JInt(1), JInt(2)>>)),
     Json(JNull),
     Json(JInt(5)),
     Json(JObject([foo |-> JInt(1)]))}

\* objects with a field of a type the engine cannot work on
WrongTypes ==
    {Json(JObject([core_features |-> JInt(5)])),
     Json(JObject([core_features |-> JList(<<JInt(1)>>)])),
     Json(JObject([data_needs |-> JInt(5)])),
     Json(JObject([data_needs |-> JNull]))}

MalformedPayloads == {PayloadInvalid} \cup NotARecord \cup WrongTypes

\* objects the constructor and the engine take as they are: features given
\* as one string (as in test_server.py), a number as budget_level
UncheckedPayloads ==
    {Json(JObject([core_features |-> JStr(FeaturesLogin)])),
     Json(JObject([budget_level |-> JInt(5)]))}

\* requirements objects of the documented shape
WellFormedPayloads ==
    {Json(JObject([core_features |-> JList(f), data_needs |-> JStr(d),
                   budget_level |-> JStr(b), technical_comfort |-> JStr(c)])) :
        f \in {<<>>, <<JStr(<<"l", "o", "g", "i", "n">>)>>, <<JStr(<<"L", "O", "G", "I", "N">>)>>,
               <<JStr(<<"s", "h", "a", "r", "e", " ", "p", "h", "o", "t", "o", "s">>)>>},
        d \in {DataStore, DataStoreUpper, DataNotes},
        b \in {valid_budgets[i] : i \in 1..Len(valid_budgets)} \cup {""},
        c \in {valid_comfort[i] : i \in 1..Len(valid_comfort)} \cup {""}}

\* a requirements object whose enumerated fields hold values that are not allowed
EnumPayloads ==
    {Json(JObject([user_scale |-> JStr("millions"), timeline |-> JStr("someday"),
                   budget_level |-> JStr("cheap"), technical_comfort |-> JStr("expert")]))}

Payloads ==
    {PayloadNone} \cup MalformedPayloads \cup UncheckedPayloads \cup WellFormedPayloads

----------------------------------------------------------------------------
(* The server with several sessions: tool calls arrive one at a time, in   *)
(* any order, while the clock advances.                                    *)

StepCall ==
    \/ \E u \in TargetUsers, i \in UserInteractions, sid \in SessionIds :
           collect_user_info(u, i, sid)
    \/ \E f \in {FeaturesLogin}, d \in {DataStore}, sid \in SessionIds :
           collect_features_data(f, d, sid)
    \/ \E u \in {"personal"}, t \in {"urgent"}, sid \in SessionIds :
           collect_scale_timeline(u, t, sid)
    \/ \E t \in {"few_weeks"}, b \in {"free_only"}, c \in {"basic_setup"}, sid \in SessionIds :
           finalize_planning(t, b, c, sid)

ReadCall ==
    \/ \E d \in DetailLevels : explain_recommendation(d)
    \/ \E p \in Platforms : get_deployment_guide(p)

Next ==
    \/ Tick
    \/ start_project_planning
    \/ collect_project_vision(VisionNeon)
    \/ StepCall
    \/ ReadCall

Spec == Init /\ [][Next]_vars

----------------------------------------------------------------------------
(* The server with sessions of different visions, and the tools that read  *)
(* the most recent session.                                                *)

NextExplain ==
    \/ Tick
    \/ \E v \in Visions : collect_project_vision(v)
    \/ \E sid \in SessionIds : collect_user_info("my team", "daily", sid)
    \/ \E sid \in SessionIds : finalize_planning("few_weeks", "low_cost", "some_technical", sid)
    \/ ReadCall

SpecExplain == Init /\ [][NextExplain]_vars

----------------------------------------------------------------------------
(* One session, created and filled within one second of the clock, with   *)
(* every value of the enumerated arguments.                                *)

NextEnums ==
    \/ collect_project_vision(VisionNeon)
    \/ \E u \in {"personal", "millions"}, t \in AllTimelines :
           collect_scale_timeline(u, t, NoSessionId)
    \/ \E t \in AllTimelines, b \in AllBudgets, c \in AllComforts :
           finalize_planning(t, b, c, NoSessionId)
    \/ \E p \in EnumPayloads : recommend_stack(p)

SpecEnums == Init /\ [][NextEnums]_vars

----------------------------------------------------------------------------
(* The rule engine applied to requirements given directly.                 *)

NextEngine == \E p \in Payloads : recommend_stack(p)

SpecEngine == Init /\ [][NextEngine]_vars

----------------------------------------------------------------------------
(* One session whose features are entered again and again.                 *)

NextFeatures ==
    \/ collect_project_vision(VisionNeon)
    \/ \E f \in FeatureTexts, d \in {DataStore, DataStoreUpper, DataNotes},
          sid \in {NoSessionId, UnknownId} :
           collect_features_data(f, d, sid)
    \/ finalize_planning("urgent", "flexible", "enjoy_technical", NoSessionId)
    \/ get_deployment_guide("recommended")

SpecFeatures == Init /\ [][NextFeatures]_vars

----------------------------------------------------------------------------
(* Properties of the session store. *)

StepOps == {"collect_user_info", "collect_features_data",
            "collect_scale_timeline", "finalize_planning"}
ReadOps == {"explain_recommendation", "get_deployment_guide"}
SessionErrors == {"no_active_session", "session_not_found"}

\* this step is a call of one of the tools ops (a second passing leaves last as it is)
Called(ops) == last' # last /\ last'.op \in ops

\* the last call was a step tool called without session_id
StepOmitted == last.op \in StepOps /\ last.args.session_id = NoSessionId

\* C1: every call of collect_project_vision adds a key that was not in
\* planning_sessions, so the store grows by exactly one session and the
\* records already stored stay as they were.
C1_UniqueIds ==
    [][Called({"collect_project_vision"}) =>
          /\ strftime(clock) \notin DOMAIN planning_sessions
          /\ Cardinality(DOMAIN planning_sessions') = Cardinality(DOMAIN planning_sessions) + 1
          /\ \A k \in DOMAIN planning_sessions : planning_sessions'[k] = planning_sessions[k]]_vars

\* C2: once a session has been created, a call without session_id works on
\* the session created last, whatever sessions were created before it: the
\* step tools write its record, the read-only tools read it.
C2_MostRecent ==
    /\ (StepOmitted /\ last.result.kind \notin SessionErrors) =>
           /\ last.result.session = newest.id
           /\ newest.id \in DOMAIN planning_sessions
           /\ planning_sessions[newest.id].project_vision = newest.project_vision
    /\ (last.op \in ReadOps /\ last.result.kind \in {"basic", "detailed", "guide"}) =>
           last.result.session = newest.id
    /\ (last.op = "finalize_planning" /\ StepOmitted /\ last.result.kind = "ok") =>
           last.result.project_vision = newest.project_vision
    /\ (last.op = "explain_recommendation" /\ last.result.kind = "detailed") =>
           last.result.project_vision = newest.project_vision

\* two sessions exist and a step without session_id has just written the later one
C2_Witness ==
    /\ Cardinality(DOMAIN planning_sessions) = 2
    /\ StepOmitted /\ last.result.kind = "ok"
    /\ last.result.session = strftime(clock)
    /\ \E k \in DOMAIN planning_sessions : k # newest.id

\* C3 as stated: start_project_planning adds a record with default fields
\* that is the most recent session.
C3_BeginCreates ==
    [][Called({"start_project_planning"}) =>
          \E k \in DOMAIN planning_sessions' \ DOMAIN planning_sessions :
              /\ k = MaxKey(DOMAIN planning_sessions')
              /\ planning_sessions'[k] = ProjectRequirements(clock)]_vars

\* C3 amended: start_project_planning leaves the store as it is, so a step
\* without session_id directly after it on an empty store gets the
\* no-session error; collect_project_vision stores, under the most recent
\* id, a record that is default except for the vision, and a step without
\* session_id directly after it works on that session.
C3_VisionCreates ==
    [][/\ Called({"start_project_planning"}) => planning_sessions' = planning_sessions
       /\ Called({"collect_project_vision"}) =>
              LET k == MaxKey(DOMAIN planning_sessions')
              IN  /\ k = strftime(clock)
                  /\ planning_sessions'[k] =
                         [ProjectRequirements(clock) EXCEPT !.project_vision = last'.args.project_vision]
       /\ (Called(StepOps) /\ last'.args.session_id = NoSessionId) =>
              /\ (last.op = "start_project_planning" /\ DOMAIN planning_sessions = {}) =>
                     last'.result.kind = "no_active_session"
              /\ last.op = "collect_project_vision" =>
                     /\ last'.result.kind \notin SessionErrors
                     /\ last'.result.session = last.result.session]_vars

\* a step without session_id has just filled the record that
\* collect_project_vision created in this second
C3_Witness ==
    /\ last.op = "collect_user_info" /\ last.args.session_id = NoSessionId
    /\ last.result.kind = "ok"
    /\ newest.id = strftime(clock)
    /\ planning_sessions[newest.id].target_users # ""
    /\ planning_sessions[newest.id].timeline = ""

\* a step tool is called with an id that resolves to no stored session
NoSuchSession(session_id) ==
    \/ session_id = NoSessionId /\ DOMAIN planning_sessions = {}
    \/ session_id # NoSessionId /\ session_id \notin DOMAIN planning_sessions

\* C4: a step tool called without session_id on an empty store, or with a
\* session_id that is not a key of the store, returns the session-not-found
\* error and leaves the store unchanged.
C4_SessionNotFound ==
    [][(Called(StepOps) /\ NoSuchSession(last'.args.session_id)) =>
          /\ last'.result.kind \in SessionErrors
          /\ planning_sessions' = planning_sessions]_vars

\* a step was refused for an unknown id while the store holds a filled record
C4_Witness ==
    /\ last.op \in StepOps /\ last.result.kind = "session_not_found"
    /\ last.args.session_id \notin DOMAIN planning_sessions
    /\ \E k \in DOMAIN planning_sessions : planning_sessions[k].target_users # ""


----------------------------------------------------------------------------
(* Properties of the enumerated arguments. *)

\* the values the specification allows for each enumerated field
AllowedSet(field) ==
    CASE field = "user_scale" -> {"personal", "small_community", "hundreds", "thousands_plus"}
      [] field = "timeline" -> {"experimental", "few_weeks", "month_or_two", "urgent"}
      [] field = "budget_level" -> {"free_only", "low_cost", "reasonable", "flexible"}
      [] field = "technical_comfort" ->
             {"avoid_technical", "basic_setup", "some_technical", "enjoy_technical"}

\* the enumerated arguments of a call of finalize_planning or collect_scale_timeline
EnumArgs(op) ==
    IF op = "finalize_planning"
    THEN {"timeline", "budget_level", "technical_comfort"}
    ELSE {"user_scale", "timeline"}

\* C5: finalize_planning or collect_scale_timeline, called on an existing
\* session with an enumerated argument outside its allowed set, returns an
\* error that names such an argument and lists its allowed values, and
\* the store (so the addressed record) is left as it was.
C5_InvalidEnum ==
    [][(/\ Called({"finalize_planning", "collect_scale_timeline"})
        /\ ~NoSuchSession(last'.args.session_id)
        /\ \E f \in EnumArgs(last'.op) : last'.args[f] \notin AllowedSet(f)) =>
          /\ last'.result.kind = "invalid_enum"
          /\ last'.result.field \in EnumArgs(last'.op)
          /\ last'.args[last'.result.field] \notin AllowedSet(last'.result.field)
          /\ {last'.result.allowed[i] : i \in 1..Len(last'.result.allowed)}
                 = AllowedSet(last'.result.field)
          /\ planning_sessions' = planning_sessions]_vars

\* finalize_planning was refused for its technical_comfort alone, on a
\* session that holds an earlier timeline
C5_Witness ==
    /\ last.op = "finalize_planning" /\ last.result.kind = "invalid_enum"
    /\ last.result.field = "technical_comfort"
    /\ last.args.timeline = "urgent" /\ last.args.budget_level = "flexible"
    /\ planning_sessions[last.result.session].timeline = "experimental"
    /\ planning_sessions[last.result.session].budget_level = ""

\* C6: after finalize_planning has accepted three allowed values, the
\* record it addressed holds exactly these values as timeline, budget_level
\* and technical_comfort, whatever it held before.
C6_FinalizeStores ==
    (/\ last.op = "finalize_planning"
     /\ \A f \in EnumArgs("finalize_planning") : last.args[f] \in AllowedSet(f)
     /\ last.result.kind \notin SessionErrors) =>
        /\ last.result.kind = "ok"
        /\ planning_sessions[last.result.session].timeline = last.args.timeline
        /\ planning_sessions[last.result.session].budget_level = last.args.budget_level
        /\ planning_sessions[last.result.session].technical_comfort
               = last.args.technical_comfort

\* finalize_planning has stored a triple of allowed values
C6_Witness ==
    /\ last.op = "finalize_planning" /\ last.result.kind = "ok"
    /\ last.args.timeline = "month_or_two"
    /\ last.args.budget_level = "reasonable"
    /\ last.args.technical_comfort = "enjoy_technical"
    /\ planning_sessions[last.result.session].timeline = "month_or_two"

----------------------------------------------------------------------------
(* Properties of the rule engine. *)

\* the last call was recommend_stack and it returned a recommendation
Recommended == last.op = "recommend_stack" /\ last.result.kind = "recommendation"

\* the record recommend_stack built from a payload
RequirementsOf(payload) == FromPayload(payload.value.v, 0)

BackendOf(payload) == analyze_requirements(RequirementsOf(payload)).stack_summary.backend

SameSignals(p, q) ==
    /\ needs_database(RequirementsOf(p)) = needs_database(RequirementsOf(q))
    /\ needs_auth(RequirementsOf(p)) = needs_auth(RequirementsOf(q))

EasySetup(payload) ==
    RequirementsOf(payload).technical_comfort \in {"avoid_technical", "basic_setup"}

\* C7 as stated: two requirements records with the same needsDatabase and
\* needsAuth get the same backend string, whatever their other fields.
C7_BackendBySignals ==
    Recommended =>
        \A p \in WellFormedPayloads :
            SameSignals(p, last.args.session_requirements) =>
                BackendOf(p) = last.result.recommendations.stack_summary.backend

\* C7 amended: the backend string is decided by needsDatabase, needsAuth
\* and, when both hold, by whether technical_comfort is avoid_technical or
\* basic_setup; database-only, auth-only and neither have one string each.
C7_BackendTable ==
    Recommended =>
        LET p       == last.args.session_requirements
            db      == needs_database(RequirementsOf(p))
            auth    == needs_auth(RequirementsOf(p))
            backend == last.result.recommendations.stack_summary.backend
        IN  /\ (db /\ auth /\ EasySetup(p)) =>
                   backend = "Next.js API routes with Supabase (includes auth + database)"
            /\ (db /\ auth /\ ~EasySetup(p)) =>
                   backend = "Next.js API routes with Neon (serverless Postgres) + Clerk auth"
            /\ (db /\ ~auth) => backend = "Next.js API routes with Neon (serverless Postgres)"
            /\ (~db /\ auth) => backend = "Next.js API routes with Clerk auth"
            /\ (~db /\ ~auth) => backend = "Next.js API routes (for any server functionality)"
            /\ \A q \in WellFormedPayloads :
                   (SameSignals(p, q) /\ (EasySetup(p) <=> EasySetup(q))) =>
                       BackendOf(q) = backend

\* a recommendation for a record with both signals and a technical user
C7_Witness ==
    /\ Recommended
    /\ needs_database(RequirementsOf(last.args.session_requirements))
    /\ needs_auth(RequirementsOf(last.args.session_requirements))
    /\ RequirementsOf(last.args.session_requirements).technical_comfort = "enjoy_technical"

\* C8: recommend_stack, given a payload that is not JSON or is not a
\* requirements object, returns the parse error and leaves the store as it was.
C8_MalformedRejected ==
    [][(Called({"recommend_stack"}) /\ last'.args.session_requirements \in MalformedPayloads) =>
          /\ last'.result.kind = "parse_error"
          /\ planning_sessions' = planning_sessions]_vars

\* C10: the cost estimate is decided by budget_level alone: free_only gives
\* the free-tier string, low_cost the low-cost string, reasonable and
\* flexible the same higher string.
C10_CostByBudget ==
    Recommended =>
        LET budget == RequirementsOf(last.args.session_requirements).budget_level
            cost   == last.result.recommendations.cost_estimate
        IN  /\ budget = "free_only" => cost = "$0-20/month (generous free tiers + domain)"
            /\ budget = "low_cost" => cost = "$20-50/month"
            /\ budget \in {"reasonable", "flexible"} =>
                   cost = "$50-150/month with room to scale"
            /\ \A q \in WellFormedPayloads :
                   RequirementsOf(q).budget_level = budget =>
                       analyze_requirements(RequirementsOf(q)).cost_estimate = cost

\* a recommendation for a reasonable budget and a record with both signals
C10_Witness ==
    /\ Recommended
    /\ RequirementsOf(last.args.session_requirements).budget_level = "reasonable"
    /\ RequirementsOf(last.args.session_requirements).technical_comfort = "avoid_technical"
    /\ needs_auth(RequirementsOf(last.args.session_requirements))

----------------------------------------------------------------------------
(* Properties of explain_recommendation. *)

\* C9: explain_recommendation returns the no-active-session error exactly
\* when the store is empty; otherwise explain("basic") echoes the first 100
\* characters of the vision of the session created last (all of it when it
\* is shorter); the call never changes the store.
C9_Explain ==
    [][Called({"explain_recommendation"}) =>
          /\ planning_sessions' = planning_sessions
          /\ last'.result.kind = "no_active_session" <=> DOMAIN planning_sessions = {}
          /\ (DOMAIN planning_sessions # {} /\ last'.args.detail_level = "basic") =>
                 LET vision == newest.project_vision
                     echo   == last'.result.project_vision
                 IN  /\ last'.result.kind = "basic"
                     /\ Len(echo) = IF Len(vision) < 100 THEN Len(vision) ELSE 100
                     /\ \A i \in 1..Len(echo) : echo[i] = vision[i]]_vars

\* explain("basic") has cut the long vision of the later of two sessions
C9_Witness ==
    /\ last.op = "explain_recommendation" /\ last.result.kind = "basic"
    /\ Len(newest.project_vision) > 100
    /\ Len(last.result.project_vision) = 100
    /\ \E k \in DOMAIN planning_sessions :
           k # newest.id /\ planning_sessions[k].project_vision # newest.project_vision

----------------------------------------------------------------------------
(* Properties of the feature list. *)

\* the positions that bound the pieces of a text: before it, after it, its commas
Cuts(text) == {0, Len(text) + 1} \cup {i \in 1..Len(text) : text[i] = ","}

\* the pieces, each given by the cuts on its two sides
Pieces(text) ==
    {p \in Cuts(text) \X Cuts(text) :
        p[1] < p[2] /\ ~\E c \in Cuts(text) : p[1] < c /\ c < p[2]}

\* the positions of a piece that are not whitespace
Inked(text, p) == {i \in (p[1] + 1)..(p[2] - 1) : text[i] \notin {" ", "\t", "\n"}}

\* the pieces that are not empty after trimming
KeptPieces(text) == {p \in Pieces(text) : Inked(text, p) # {}}

\* a piece from its first to its last character that is not whitespace
Trimmed(text, p) ==
    LET ink == Inked(text, p)
        lo  == CHOOSE i \in ink : \A j \in ink : i <= j
        hi  == CHOOSE i \in ink : \A j \in ink : j <= i
    IN  SubSeq(text, lo, hi)

\* C11: core_features is the list of the comma-separated pieces of the
\* last input, trimmed, without the pieces that are empty after trimming,
\* in their order; "a, b ,, c" gives a, b, c; what an earlier call stored
\* is replaced.
C11_FeaturesParsed ==
    (last.op = "collect_features_data" /\ last.result.kind = "ok") =>
        LET text   == last.args.core_features
            stored == planning_sessions[last.result.session].core_features
            kept   == KeptPieces(text)
        IN  /\ Len(stored) = Cardinality(kept)
            /\ \A p \in kept :
                   stored[Cardinality({q \in kept : q[1] <= p[1]})] = Trimmed(text, p)
            /\ text = FeaturesABC => stored = <<(<<"a">>), (<<"b">>), (<<"c">>)>>

\* "a, b ,, c" has been stored over the features of a finalized session
C11_Witness ==
    /\ last.op = "collect_features_data" /\ last.result.kind = "ok"
    /\ last.args.core_features = FeaturesABC
    /\ Len(planning_sessions[last.result.session].core_features) = 3
    /\ planning_sessions[last.result.session].budget_level = "flexible"

----------------------------------------------------------------------------
(* Properties of the keyword signals. *)

\* the words of the specification, as the characters of each
DatabaseWords ==
    {<<"s", "t", "o", "r", "e">>, <<"s", "a", "v", "e">>,
     <<"p", "r", "o", "f", "i", "l", "e">>, <<"u", "s", "e", "r">>,
     <<"a", "c", "c", "o", "u", "n", "t">>, <<"d", "a", "t", "a">>,
     <<"r", "e", "c", "o", "r", "d", "s">>}
AuthWords ==
    {<<"l", "o", "g", "i", "n">>, <<"a", "c", "c", "o", "u", "n", "t">>,
     <<"u", "s", "e", "r">>, <<"p", "r", "o", "f", "i", "l", "e">>,
     <<"a", "u", "t", "h">>, <<"s", "i", "g", "n", "u", "p">>}

\* a word is part of the text, letter case ignored
Mentions(text, words) == \E w \in words : Contains(Lower(text), w)

\* the two signals the backend string of a recommendation stands for
SignalsOf(backend) ==
    CASE backend \in {"Next.js API routes with Supabase (includes auth + database)",
                      "Next.js API routes with Neon (serverless Postgres) + Clerk auth"} ->
             [database |-> TRUE, auth |-> TRUE]
      [] backend = "Next.js API routes with Neon (serverless Postgres)" ->
             [database |-> TRUE, auth |-> FALSE]
      [] backend = "Next.js API routes with Clerk auth" ->
             [database |-> FALSE, auth |-> TRUE]
      [] backend = "Next.js API routes (for any server functionality)" ->
             [database |-> FALSE, auth |-> FALSE]

\* "login" and "store user profiles"
ExampleFeatures == <<<<"l", "o", "g", "i", "n">>>>
ExampleData == <<"s", "t", "o", "r", "e", " ", "u", "s", "e", "r", " ", "p", "r", "o", "f", "i", "l", "e", "s">>

\* C12: needsDatabase holds exactly when a database word is part of the
\* lower-cased data_needs followed by the features, needsAuth exactly when
\* an auth word is part of the lower-cased features alone; "store user
\* profiles" with the feature "login" gives both; the letter case of
\* data_needs and features changes neither signal.
C12_KeywordSignals ==
    Recommended =>
        LET p        == last.args.session_requirements
            r        == RequirementsOf(p)
            features == Join(r.core_features, <<" ">>)
            signals  == SignalsOf(last.result.recommendations.stack_summary.backend)
        IN  /\ signals.database <=> Mentions(r.data_needs \o features, DatabaseWords)
            /\ signals.auth <=> Mentions(features, AuthWords)
            /\ (r.data_needs = ExampleData /\ r.core_features = ExampleFeatures) =>
                   signals = [database |-> TRUE, auth |-> TRUE]
            /\ \A q \in WellFormedPayloads :
                   (/\ Lower(RequirementsOf(q).data_needs) = Lower(r.data_needs)
                    /\ Lower(Join(RequirementsOf(q).core_features, <<" ">>)) = Lower(features)) =>
                       SignalsOf(BackendOf(q)) = signals

\* a recommendation for upper-case data needs that name users, without features
C12_Witness ==
    /\ Recommended
    /\ RequirementsOf(last.args.session_requirements).data_needs = DataStoreUpper
    /\ RequirementsOf(last.args.session_requirements).core_features = <<>>
    /\ last.result.recommendations.stack_summary.backend
           = "Next.js API routes with Neon (serverless Postgres)"

----------------------------------------------------------------------------
(* Properties of the steps as a whole. *)

\* the arguments of a step call are acceptable to its validation
ValidArgs(call) ==
    /\ call.op = "collect_scale_timeline" =>
           call.args.user_scale \in AllowedSet("user_scale")
    /\ call.op \in {"collect_scale_timeline", "finalize_planning"} =>
           call.args.timeline \in AllowedSet("timeline")
    /\ call.op = "finalize_planning" =>
           /\ call.args.budget_level \in AllowedSet("budget_level")
           /\ call.args.technical_comfort \in AllowedSet("technical_comfort")

\* C13: once the session it addresses exists, a step tool called with
\* valid arguments succeeds, whatever steps were taken before it and in
\* whatever order.
C13_AnyOrder ==
    [][(/\ Called(StepOps)
        /\ ~NoSuchSession(last'.args.session_id)
        /\ ValidArgs(last')) =>
          last'.result.kind = "ok"]_vars

\* finalize_planning has succeeded on a session with no users and no features
C13_Witness ==
    /\ last.op = "finalize_planning" /\ last.result.kind = "ok"
    /\ planning_sessions[last.result.session].core_features = <<>>
    /\ planning_sessions[last.result.session].target_users = ""
    /\ planning_sessions[last.result.session].budget_level = "free_only"

\* C14: every stored record has timeline, budget_level and
\* technical_comfort empty or among the allowed values, and user_scale
\* empty or "small_start".
C14_StoredEnums ==
    \A k \in DOMAIN planning_sessions :
        /\ planning_sessions[k].timeline \in AllowedSet("timeline") \cup {""}
        /\ planning_sessions[k].budget_level \in AllowedSet("budget_level") \cup {""}
        /\ planning_sessions[k].technical_comfort \in AllowedSet("technical_comfort") \cup {""}
        /\ planning_sessions[k].user_scale \in {"", "small_start"}

\* a finalized record has survived a call with a budget_level that is not allowed
C14_Witness ==
    /\ last.op = "finalize_planning" /\ last.result.kind = "invalid_enum"
    /\ last.args.budget_level = "cheap" /\ last.args.timeline = "experimental"
    /\ \E k \in DOMAIN planning_sessions :
           /\ planning_sessions[k].budget_level = "low_cost"
           /\ planning_sessions[k].user_scale = "small_start"

\* the fields a step tool writes
OwnedFields(op) ==
    CASE op = "collect_user_info" -> {"target_users", "user_interaction"}
      [] op = "collect_features_data" -> {"core_features", "data_needs"}
      [] op = "collect_scale_timeline" -> {"user_scale", "timeline"}
      [] op = "finalize_planning" -> {"timeline", "budget_level", "technical_comfort",
                                      "user_scale"}

\* C15: a successful step changes, in the record it addresses, only the
\* fields it owns; every other record and the set of ids stay as they
\* were; no tool call removes a session.
C15_Frame ==
    [][/\ DOMAIN planning_sessions \subseteq DOMAIN planning_sessions'
       /\ (Called(StepOps) /\ last'.result.kind = "ok") =>
              /\ DOMAIN planning_sessions' = DOMAIN planning_sessions
              /\ \A k \in DOMAIN planning_sessions :
                     \A f \in DOMAIN planning_sessions[k] :
                         (k # last'.result.session \/ f \notin OwnedFields(last'.op)) =>
                             planning_sessions'[k][f] = planning_sessions[k][f]]_vars

\* finalize_planning, addressed by id, has completed the older of two filled sessions
C15_Witness ==
    /\ last.op = "finalize_planning" /\ last.result.kind = "ok"
    /\ last.args.session_id # NoSessionId
    /\ last.result.session # newest.id
    /\ planning_sessions[last.result.session].core_features # <<>>
    /\ planning_sessions[last.result.session].target_users # ""
    /\ planning_sessions[newest.id].target_users # ""

====
